---- MODULE Spec2Model ----
(***************************************************************************)
(* telethon_serialization.py: the class registry, the to_dict wrapper, the *)
(* JSON scalar codec and the recursive reconstruction, as a state machine. *)
(*                                                                         *)
(* Python values are records tagged by "t": none, bool, int, str, bytes,   *)
(* datetime, list (v a sequence), dict (v a sequence of <<key, value>>     *)
(* pairs in insertion order) and obj (a TLObject instance: cls, and v the  *)
(* <<field, value>> pairs in declaration order).  A JSON text is           *)
(* represented by its syntax tree: the values of kind none, bool, int,     *)
(* str, list and dict.  An operation that can raise returns Ok(v) or       *)
(* Err(e).                                                                 *)
(***************************************************************************)
EXTENDS Integers, Sequences, FiniteSets, TLC

\* ---------------------------------------------------------------- bounds
\* integers used as field values are 1..MaxInt
MaxInt == 2
\* a vector field holds at most MaxListLen elements
MaxListLen == 2

\* ---------------------------------------------------------------- values
PyNone == [t |-> "none"]
PyBool(b) == [t |-> "bool", v |-> b]
PyInt(n) == [t |-> "int", v |-> n]
PyStr(s) == [t |-> "str", v |-> s]
PyBytes(b) == [t |-> "bytes", v |-> b]
PyDatetime(d) == [t |-> "datetime", v |-> d]
PyList(s) == [t |-> "list", v |-> s]
PyDict(pairs) == [t |-> "dict", v |-> pairs]
PyObj(c, pairs) == [t |-> "obj", cls |-> c, v |-> pairs]

Ok(x) == [ok |-> TRUE, val |-> x]
Err(e) == [ok |-> FALSE, err |-> e]

StateError == "RuntimeError: patch_telethon_classes not called"
AlreadyCalled == "RuntimeError: patch_telethon_classes already called"
UnknownClass == "ValueError: unknown class"
TagNotStr == "ValueError: value for _ key should be str"
ClassNameMismatch == "ValueError: class name mismatch"
UnsupportedType == "TypeError: unsupported type"
NotSerializable == "TypeError: default_json_helper: not serializable"
NotTLObject == "TypeError: restored object is not descendant of TLObject"
CtorError == "TypeError: constructor arguments"
IsoTypeError == "TypeError: fromisoformat: argument must be str"
IsoValueError == "ValueError: Invalid isoformat string"
EncodedKeyError == "KeyError: encoded"
Base64Error == "binascii.Error"
NotIterable == "TypeError: object is not iterable"
StringifyError == "Exception: stringify"

\* dict helpers over <<key, value>> pair sequences
Keys(pairs) == {pairs[i][1] : i \in 1..Len(pairs)}
HasKey(pairs, k) == k \in Keys(pairs)
Get(pairs, k) == pairs[CHOOSE i \in 1..Len(pairs) : pairs[i][1] = k][2]
\* dict.get(k): the value, or None when the key is absent
DictGet(pairs, k) == IF HasKey(pairs, k) THEN Get(pairs, k) ELSE PyNone
\* the dict without key k (dict.pop's effect on the dict)
Without(pairs, k) == SelectSeq(pairs, LAMBDA p : p[1] # k)
\* d[k] = x for a key already present: the entry keeps its position
SetKey(pairs, k, x) == [i \in 1..Len(pairs) |-> IF pairs[i][1] = k THEN <<k, x>> ELSE pairs[i]]

\* ---------------------------------------------------------- the classes
\* The classes the source names: telethon.tl.types.Message (the generated
\* class), telethon.tl.patched.Message (its subclass, the one registered in
\* alltlobjects), PeerChannel, PhotoStrippedSize; a second class object with
\* PeerChannel's module and name; and a class that is no TLObject.
Classes == {"types.Message", "patched.Message", "PeerChannel", "PeerChannel#2", "PhotoStrippedSize", "NotTL"}

module(k) == CASE k = "patched.Message" -> "telethon.tl.patched"
               [] k = "NotTL" -> "builtins"
               [] OTHER -> "telethon.tl.types"

qualname(k) == CASE k \in {"types.Message", "patched.Message"} -> "Message"
                 [] k \in {"PeerChannel", "PeerChannel#2"} -> "PeerChannel"
                 [] k = "PhotoStrippedSize" -> "PhotoStrippedSize"
                 [] OTHER -> "dict"

\* the base class a class inherits its attributes from
base(k) == IF k = "patched.Message" THEN "types.Message" ELSE IF k = "NotTL" THEN "object" ELSE "TLObject"

issubclassTLObject(k) == k # "NotTL"

\* constructor parameters, in declaration order: name, how the generated
\* to_dict renders the field, and whether the argument is required
Param(n, kind, req) == [name |-> n, kind |-> kind, required |-> req]

Params(k) == CASE k \in {"types.Message", "patched.Message"} ->
                    << Param("id", "plain", TRUE), Param("peer_id", "object", TRUE),
                       Param("date", "plain", FALSE), Param("entities", "vector", FALSE) >>
               [] k \in {"PeerChannel", "PeerChannel#2"} -> << Param("channel_id", "plain", TRUE) >>
               [] k = "PhotoStrippedSize" -> << Param("type", "plain", TRUE), Param("bytes", "plain", TRUE) >>
               [] OTHER -> << >>

ParamNames(k) == {Params(k)[i].name : i \in 1..Len(Params(k))}
RequiredNames(k) == {Params(k)[i].name : i \in {j \in 1..Len(Params(k)) : Params(k)[j].required}}

\* obj_class(**kwargs): unknown or missing keyword arguments are a TypeError;
\* an omitted optional argument is None
Construct(k, kwargs) ==
    IF ~(Keys(kwargs) \subseteq ParamNames(k)) \/ ~(RequiredNames(k) \subseteq Keys(kwargs))
    THEN Err(CtorError)
    ELSE Ok(PyObj(k, [i \in 1..Len(Params(k)) |-> <<Params(k)[i].name, DictGet(kwargs, Params(k)[i].name)>>]))

full_class_name(k) == module(k) \o "." \o qualname(k)

\* full_name.split('.')[-1]
BaseNameOf(full_name) == qualname(CHOOSE k \in Classes : full_class_name(k) = full_name)

\* alltlobjects.tlobjects.values() and TLObject.__subclasses__()
alltlobjects == << "PeerChannel", "PhotoStrippedSize", "patched.Message" >>
TLObjectSubclasses == << "types.Message", "PeerChannel", "PhotoStrippedSize" >>

\* ---------------------------------------------------------- scalar codec
Datetimes == {"2025-12-01 01:02:03 UTC", "2025-12-01 00:01:02 UTC"}
ByteStrings == {"", "02 40 d5 ff"}

isoformat(d) == IF d = "2025-12-01 01:02:03 UTC" THEN "2025-12-01T01:02:03+00:00" ELSE "2025-12-01T00:01:02+00:00"

fromisoformat(x) ==
    IF x.t # "str" THEN Err(IsoTypeError)
    ELSE IF \E d \in Datetimes : isoformat(d) = x.v
         THEN Ok(PyDatetime(CHOOSE d \in Datetimes : isoformat(d) = x.v))
         ELSE Err(IsoValueError)

\* base64.encodebytes(b).decode()
encodebytes(b) == IF b = "" THEN "" ELSE "AkDV/w==\n"

\* base64.decodebytes(s.encode())
decodebytes(x) ==
    IF x.t # "str" THEN Err("AttributeError: encode")
    ELSE IF \E b \in ByteStrings : encodebytes(b) = x.v
         THEN Ok(PyBytes(CHOOSE b \in ByteStrings : encodebytes(b) = x.v))
         ELSE Err(Base64Error)

default_json_helper(obj) ==
    IF obj.t = "datetime" THEN Ok(PyDict(<< <<"_isoformat", PyStr(isoformat(obj.v))>> >>))
    ELSE IF obj.t = "bytes"
         THEN Ok(PyDict(<< <<"_base64", PyBool(TRUE)>>, <<"encoded", PyStr(encodebytes(obj.v))>> >>))
         ELSE Err(NotSerializable)

\* mutant: the keys are tested for truth, not against None
object_hook_json_helper_truthy(obj) ==
    IF DictGet(obj.v, "_isoformat") \notin {PyNone, PyBool(FALSE), PyStr(""), PyInt(0)}
    THEN fromisoformat(Get(obj.v, "_isoformat"))
    ELSE IF DictGet(obj.v, "_base64") \notin {PyNone, PyBool(FALSE), PyStr(""), PyInt(0)}
         THEN IF ~HasKey(obj.v, "encoded") THEN Err(EncodedKeyError)
              ELSE decodebytes(Get(obj.v, "encoded"))
         ELSE Ok(obj)

object_hook_json_helper(obj) ==
    IF DictGet(obj.v, "_isoformat").t # "none" THEN fromisoformat(Get(obj.v, "_isoformat"))
    ELSE IF DictGet(obj.v, "_base64").t # "none"
         THEN IF ~HasKey(obj.v, "encoded") THEN Err(EncodedKeyError)
              ELSE decodebytes(Get(obj.v, "encoded"))
         ELSE Ok(obj)

\* json.dumps(value, default=default_json_helper): the tree of the text
RECURSIVE json_dumps(_)
RECURSIVE DumpsSeq(_, _)
RECURSIVE DumpsPairs(_, _)
DumpsSeq(s, i) ==
    IF i > Len(s) THEN Ok(<< >>)
    ELSE LET r == json_dumps(s[i]) IN
         IF ~r.ok THEN r
         ELSE LET rest == DumpsSeq(s, i + 1) IN
              IF ~rest.ok THEN rest ELSE Ok(<<r.val>> \o rest.val)
DumpsPairs(s, i) ==
    IF i > Len(s) THEN Ok(<< >>)
    ELSE LET r == json_dumps(s[i][2]) IN
         IF ~r.ok THEN r
         ELSE LET rest == DumpsPairs(s, i + 1) IN
              IF ~rest.ok THEN rest ELSE Ok(<< <<s[i][1], r.val>> >> \o rest.val)
json_dumps(x) ==
    IF x.t \in {"none", "bool", "int", "str"} THEN Ok(x)
    ELSE IF x.t = "list" THEN LET r == DumpsSeq(x.v, 1) IN IF r.ok THEN Ok(PyList(r.val)) ELSE r
    ELSE IF x.t = "dict" THEN LET r == DumpsPairs(x.v, 1) IN IF r.ok THEN Ok(PyDict(r.val)) ELSE r
    ELSE LET d == default_json_helper(x) IN IF d.ok THEN json_dumps(d.val) ELSE d

\* json.loads(text, object_hook=object_hook_json_helper): children first,
\* then the hook on every JSON object
RECURSIVE json_loads(_)
RECURSIVE LoadsSeq(_, _)
RECURSIVE LoadsPairs(_, _)
LoadsSeq(s, i) ==
    IF i > Len(s) THEN Ok(<< >>)
    ELSE LET r == json_loads(s[i]) IN
         IF ~r.ok THEN r
         ELSE LET rest == LoadsSeq(s, i + 1) IN
              IF ~rest.ok THEN rest ELSE Ok(<<r.val>> \o rest.val)
LoadsPairs(s, i) ==
    IF i > Len(s) THEN Ok(<< >>)
    ELSE LET r == json_loads(s[i][2]) IN
         IF ~r.ok THEN r
         ELSE LET rest == LoadsPairs(s, i + 1) IN
              IF ~rest.ok THEN rest ELSE Ok(<< <<s[i][1], r.val>> >> \o rest.val)
json_loads(x) ==
    IF x.t = "list" THEN LET r == LoadsSeq(x.v, 1) IN IF r.ok THEN Ok(PyList(r.val)) ELSE r
    ELSE IF x.t = "dict"
         THEN LET r == LoadsPairs(x.v, 1) IN IF r.ok THEN object_hook_json_helper(PyDict(r.val)) ELSE r
         ELSE Ok(x)

\* ------------------------------------------------------------------ state
VARIABLES _PATCH_CALLED, _PATCHED_CLASS_NAMES, _CLASS_CACHE, klass_to_dict, last

vars == << _PATCH_CALLED, _PATCHED_CLASS_NAMES, _CLASS_CACHE, klass_to_dict, last >>

\* klass_to_dict[k] is the to_dict attribute class k itself carries: << >> when
\* it has none of its own and inherits its base's, else << f >> where f is a
\* function: the generated to_dict emitting tag f.native, under the wrappers
\* f.wraps (innermost first), each a new_to_dict closure over full_name,
\* basename and the function it replaced.
Function(tag, wraps) == [native |-> tag, wraps |-> wraps]
Closure(k) == [klass |-> k, basename |-> qualname(k), full_name |-> full_class_name(k)]

RECURSIVE getattr_to_dict(_, _)
getattr_to_dict(attr, k) == IF attr[k] # << >> THEN attr[k][1] ELSE getattr_to_dict(attr, base(k))

Registry == [names |-> _PATCHED_CLASS_NAMES, cache |-> _CLASS_CACHE, attr |-> klass_to_dict, log |-> "none"]

\* mutant: the state check never raises
check_never_raises == Ok(PyNone)

_check_patch_was_applied == IF ~_PATCH_CALLED THEN Err(StateError) ELSE Ok(PyNone)

\* ------------------------------------------------------------- the wrapper
\* mutant: the wrapper checks the tag and leaves the short name in place
new_to_dict_short_tag(w, result) ==
    IF ~result.ok THEN result
    ELSE IF Get(result.val.v, "_") # PyStr(w.basename) THEN Err(ClassNameMismatch)
         ELSE result

\* mutant: the wrapper rewrites the tag without comparing it
new_to_dict_unchecked(w, result) ==
    IF ~result.ok THEN result
    ELSE Ok(PyDict(SetKey(result.val.v, "_", PyStr(w.full_name))))

\* new_to_dict, given the result of original_func(self)
new_to_dict(w, result) ==
    IF ~result.ok THEN result
    ELSE IF Get(result.val.v, "_") # PyStr(w.basename) THEN Err(ClassNameMismatch)
         ELSE Ok(PyDict(SetKey(result.val.v, "_", PyStr(w.full_name))))

RECURSIVE CallWrapped(_, _, _)
CallWrapped(wraps, i, result) ==
    IF i > Len(wraps) THEN result ELSE CallWrapped(wraps, i + 1, new_to_dict(wraps[i], result))

\* obj.to_dict(): the class's current to_dict applied to the instance.  The
\* generated to_dict renders a plain field as it is, an object field by the
\* value's own to_dict, and a vector field element by element (None as []);
\* a vector field holds None or a list in every state reached.
RECURSIVE to_dict(_)
RECURSIVE DescribeElems(_, _)
RECURSIVE DescribeFields(_, _)
DescribeValue(x) == IF x.t = "obj" THEN to_dict(x) ELSE Ok(x)
DescribeElems(s, i) ==
    IF i > Len(s) THEN Ok(<< >>)
    ELSE LET r == DescribeValue(s[i]) IN
         IF ~r.ok THEN r
         ELSE LET rest == DescribeElems(s, i + 1) IN
              IF ~rest.ok THEN rest ELSE Ok(<<r.val>> \o rest.val)
DescribeField(kind, x) ==
    IF kind = "plain" THEN Ok(x)
    ELSE IF kind = "object" THEN DescribeValue(x)
    ELSE IF x.t = "none" THEN Ok(PyList(<< >>))
    ELSE IF x.t = "list" THEN LET r == DescribeElems(x.v, 1) IN IF r.ok THEN Ok(PyList(r.val)) ELSE r
    ELSE Err(NotIterable)
DescribeFields(o, i) ==
    IF i > Len(o.v) THEN Ok(<< >>)
    ELSE LET r == DescribeField(Params(o.cls)[i].kind, o.v[i][2]) IN
         IF ~r.ok THEN r
         ELSE LET rest == DescribeFields(o, i + 1) IN
              IF ~rest.ok THEN rest ELSE Ok(<< <<o.v[i][1], r.val>> >> \o rest.val)
original_to_dict(o, tag) ==
    LET r == DescribeFields(o, 1) IN
    IF r.ok THEN Ok(PyDict(<< <<"_", PyStr(tag)>> >> \o r.val)) ELSE r
to_dict(o) ==
    LET f == getattr_to_dict(klass_to_dict, o.cls) IN
    CallWrapped(f.wraps, 1, original_to_dict(o, f.native))

\* mutant: no test of _PATCHED_CLASS_NAMES, the class is wrapped again
patch_to_dict_method_rewrap(st, klass) ==
    IF ~issubclassTLObject(klass) THEN [st EXCEPT !.log = "warning: not a subclass of TLObject"]
    ELSE LET original_func == getattr_to_dict(st.attr, klass)
             full_name == full_class_name(klass) IN
         [ names |-> st.names \cup {full_name},
           cache |-> [n \in DOMAIN st.cache \cup {full_name} |-> IF n = full_name THEN klass ELSE st.cache[n]],
           attr |-> [st.attr EXCEPT ![klass] = << Function(original_func.native, Append(original_func.wraps, Closure(klass))) >>],
           log |-> "debug: patched" ]

\* _patch_to_dict_method(klass) on the registry st
_patch_to_dict_method(st, klass) ==
    IF ~issubclassTLObject(klass) THEN [st EXCEPT !.log = "warning: not a subclass of TLObject"]
    ELSE IF full_class_name(klass) \in st.names THEN [st EXCEPT !.log = "none"]
    ELSE LET original_func == getattr_to_dict(st.attr, klass)
             full_name == full_class_name(klass) IN
         [ names |-> st.names \cup {full_name},
           cache |-> [n \in DOMAIN st.cache \cup {full_name} |-> IF n = full_name THEN klass ELSE st.cache[n]],
           attr |-> [st.attr EXCEPT ![klass] = << Function(original_func.native, Append(original_func.wraps, Closure(klass))) >>],
           log |-> "debug: patched" ]

RECURSIVE PatchAll(_, _, _)
PatchAll(st, klasses, i) ==
    IF i > Len(klasses) THEN st ELSE PatchAll(_patch_to_dict_method(st, klasses[i]), klasses, i + 1)

\* ------------------------------------------------------- reconstruction
\* mutant: _CLASS_CACHE.get(class_name), so an unknown name yields None,
\* and calling None is a TypeError
get_telethon_class_none(class_name) ==
    IF ~_check_patch_was_applied.ok THEN _check_patch_was_applied
    ELSE IF class_name \in DOMAIN _CLASS_CACHE THEN Ok(_CLASS_CACHE[class_name])
    ELSE Err("TypeError: 'NoneType' object is not callable")

get_telethon_class(class_name) ==
    IF ~_check_patch_was_applied.ok THEN _check_patch_was_applied
    ELSE IF class_name \in DOMAIN _CLASS_CACHE THEN Ok(_CLASS_CACHE[class_name])
    ELSE Err(UnknownClass)

\* restore_instance on a dict, from the pop of "_" on: lines 124-131
RestoreDict(restored_dict) ==
    LET class_name == DictGet(restored_dict, "_")
        fields == Without(restored_dict, "_") IN
    IF class_name.t = "none" THEN Ok(PyDict(fields))
    ELSE IF class_name.t # "str" THEN Err(TagNotStr)
    ELSE LET obj_class == get_telethon_class(class_name.v) IN
         IF ~obj_class.ok THEN obj_class ELSE Construct(obj_class.val, fields)

RECURSIVE restore_instance(_)
RECURSIVE RestoreSeq(_, _)
RECURSIVE RestorePairs(_, _)
RestoreSeq(s, i) ==
    IF i > Len(s) THEN Ok(<< >>)
    ELSE LET r == restore_instance(s[i]) IN
         IF ~r.ok THEN r
         ELSE LET rest == RestoreSeq(s, i + 1) IN
              IF ~rest.ok THEN rest ELSE Ok(<<r.val>> \o rest.val)
RestorePairs(s, i) ==
    IF i > Len(s) THEN Ok(<< >>)
    ELSE LET r == restore_instance(s[i][2]) IN
         IF ~r.ok THEN r
         ELSE LET rest == RestorePairs(s, i + 1) IN
              IF ~rest.ok THEN rest ELSE Ok(<< <<s[i][1], r.val>> >> \o rest.val)
restore_instance(raw) ==
    IF raw.t \in {"int", "bool", "str", "bytes", "datetime", "none"} THEN Ok(raw)
    ELSE IF raw.t = "list" THEN LET r == RestoreSeq(raw.v, 1) IN IF r.ok THEN Ok(PyList(r.val)) ELSE r
    ELSE IF raw.t = "dict" THEN LET r == RestorePairs(raw.v, 1) IN IF r.ok THEN RestoreDict(r.val) ELSE r
    ELSE Err(UnsupportedType)

\* mutant: no isinstance check, whatever was restored is returned
CheckTLObject_any(restored_obj) == Ok(restored_obj)

\* the isinstance check that ends tl_obj_from_string: lines 169-171
CheckTLObject(restored_obj) ==
    IF ~(restored_obj.t = "obj" /\ issubclassTLObject(restored_obj.cls)) THEN Err(NotTLObject)
    ELSE Ok(restored_obj)

tl_obj_to_string(obj) ==
    IF ~_check_patch_was_applied.ok THEN _check_patch_was_applied
    ELSE LET obj_dict == to_dict(obj) IN
         IF ~obj_dict.ok THEN obj_dict ELSE json_dumps(obj_dict.val)

tl_obj_from_string(dump) ==
    IF ~_check_patch_was_applied.ok THEN _check_patch_was_applied
    ELSE LET restored_dict == json_loads(dump) IN
         IF ~restored_dict.ok THEN restored_dict
         ELSE LET restored_obj == restore_instance(restored_dict.val) IN
              IF ~restored_obj.ok THEN restored_obj ELSE CheckTLObject(restored_obj.val)

\* the round-trip verifier: lines 355-382.  obj.stringify() is the object's
\* own method; whether it raises is an input of the call.
stringify(obj, raises) == IF raises THEN Err(StringifyError) ELSE Ok(PyStr("stringified"))

RECURSIVE issubclass(_, _)
issubclass(k, of) == IF k = of THEN TRUE ELSE IF k \in {"TLObject", "object"} THEN FALSE ELSE issubclass(base(k), of)

\* the try block, lines 358-377: Ok(True/False) when it returns, Err when an
\* exception leaves it.  full_class_name(obj) on an instance reads
\* obj.__qualname__, which an instance does not have.
TryRoundTrip(obj, raises) ==
    IF ~stringify(obj, raises).ok THEN stringify(obj, raises)
    ELSE LET obj_dump == tl_obj_to_string(obj) IN
         IF ~obj_dump.ok THEN obj_dump
         ELSE LET restored_obj == tl_obj_from_string(obj_dump.val) IN
              IF ~restored_obj.ok THEN restored_obj
              ELSE IF ~issubclass(restored_obj.val.cls, obj.cls) THEN Err("AttributeError: __qualname__")
              ELSE IF ~to_dict(obj).ok THEN to_dict(obj)
              ELSE IF ~to_dict(restored_obj.val).ok THEN to_dict(restored_obj.val)
              ELSE IF to_dict(obj) = to_dict(restored_obj.val) THEN Ok(PyBool(TRUE))
              ELSE Ok(PyBool(FALSE))

\* the except block, lines 379-382
ExceptBlock(obj, raises) ==
    IF ~stringify(obj, raises).ok THEN stringify(obj, raises) ELSE Ok(PyBool(FALSE))

check_telethon_obj_serialization(obj, raises) ==
    IF TryRoundTrip(obj, raises).ok THEN TryRoundTrip(obj, raises) ELSE ExceptBlock(obj, raises)

\* ----------------------------------------------------------------- inputs
SeqsUpTo(S, n) == UNION {[1..m -> S] : m \in 0..n}

Ints == 1..MaxInt
PeerChannelOf(n) == PyObj("PeerChannel", << <<"channel_id", PyInt(n)>> >>)
PhotoStrippedSizeOf(b) == PyObj("PhotoStrippedSize", << <<"type", PyStr("i")>>, <<"bytes", PyBytes(b)>> >>)
MessageOf(k, id, peer, date, entities) == PyObj(k, << <<"id", id>>, <<"peer_id", peer>>, <<"date", date>>, <<"entities", entities>> >>)

MessageClasses == {"types.Message", "patched.Message"}
\* the elements of a vector field: typed objects, integers, byte strings
Elements == {PeerChannelOf(1)} \cup {PhotoStrippedSizeOf(b) : b \in ByteStrings} \cup {PyInt(MaxInt)}
InnerMessage == MessageOf("patched.Message", PyInt(1), PeerChannelOf(1), PyNone, PyNone)
Peers == {PeerChannelOf(n) : n \in Ints} \cup {InnerMessage}
Dates == {PyNone} \cup {PyDatetime(d) : d \in Datetimes}
Vectors == {PyNone} \cup {PyList(s) : s \in SeqsUpTo(Elements, MaxListLen)}

Messages == {MessageOf(k, PyInt(MaxInt), p, d, e) : k \in MessageClasses, p \in Peers, d \in Dates, e \in Vectors}

\* the objects handed to encode and to the verifier
Objects == {PeerChannelOf(n) : n \in Ints} \cup {PhotoStrippedSizeOf(b) : b \in ByteStrings} \cup Messages

\* the documents handed to decode: JSON scalars, one-level objects over the
\* reserved key, the codec keys and a field, and those nested one level down
Entry(k, vals) == {<< >>} \cup {<< <<k, x>> >> : x \in vals}
KnownTag == PyStr(full_class_name("PeerChannel"))
UnknownTag == PyStr("telethon.tl.types.Unknown")
IsoText == PyStr(isoformat("2025-12-01 01:02:03 UTC"))
Scalars == {PyNone, PyBool(TRUE), PyInt(1), PyStr("hello"), KnownTag}
FlatObjects ==
    {PyDict(a \o b \o c \o d \o e) :
        a \in Entry("_", {PyNone, PyInt(1), KnownTag, UnknownTag}),
        b \in Entry("_isoformat", {PyNone, IsoText, PyStr("hello"), PyInt(1)}),
        c \in Entry("_base64", {PyNone, PyBool(TRUE), PyBool(FALSE)}),
        d \in Entry("encoded", {PyStr(encodebytes("02 40 d5 ff"))}),
        e \in Entry("channel_id", {PyInt(1)})}
Inner == Scalars \cup FlatObjects
NestedDocs ==
    {PyList(<<x>>) : x \in Inner}
    \cup {PyDict(a \o << <<"channel_id", x>> >>) : a \in Entry("_", {KnownTag, UnknownTag}), x \in Inner}
    \cup {PyDict(<< <<"_", x>> >>) : x \in FlatObjects \cup {PyList(<< >>)}}
    \cup {PyDict(<< <<"_isoformat", IsoText>>, <<"channel_id", x>> >>) : x \in FlatObjects}
    \cup {PyDict(<< <<"_base64", PyBool(TRUE)>>, <<"encoded", PyStr("")>>, <<"channel_id", x>> >>) : x \in FlatObjects}
    \cup {PyList(<<x, PyDict(<< <<"_", UnknownTag>> >>)>>) : x \in FlatObjects}
Docs == Scalars \cup FlatObjects \cup NestedDocs

\* the values handed to restore_instance directly: mappings whose "_" is
\* absent or of each value kind, with and without a field
RawValues ==
    {PyDict(a \o e) :
        a \in Entry("_", {PyNone, PyBool(TRUE), PyInt(1), PyList(<< >>), PyDict(<< >>),
                          PyDatetime("2025-12-01 01:02:03 UTC"), PyBytes(""), KnownTag, UnknownTag}),
        e \in Entry("channel_id", {PyInt(1)})}

\* the smaller inputs used where the registry is built by direct wraps
FewObjects ==
    {PeerChannelOf(1)} \cup
    {MessageOf(k, PyInt(MaxInt), p, PyNone, e) :
        k \in MessageClasses, p \in {PeerChannelOf(1), InnerMessage},
        e \in {PyNone} \cup {PyList(s) : s \in SeqsUpTo({PeerChannelOf(1)}, MaxListLen - 1)}}
FewDocs == Scalars \cup {PyDict(a \o << <<"channel_id", PyInt(1)>> >>) : a \in Entry("_", {KnownTag, UnknownTag})}

ClassNames == {full_class_name(k) : k \in Classes} \cup {UnknownTag.v}

\* ---------------------------------------------------------------- actions
Call(op, arg, src, raises, res) == [op |-> op, arg |-> arg, src |-> src, raises |-> raises, res |-> res]

\* no call in progress: the caller holds no result
Idle == Call("idle", PyNone, PyNone, FALSE, Ok(PyNone))

Init ==
    /\ _PATCH_CALLED = FALSE
    /\ _PATCHED_CLASS_NAMES = {}
    /\ _CLASS_CACHE = << >>
    /\ klass_to_dict = [k \in Classes |-> IF k \in {"patched.Message", "NotTL"} THEN << >> ELSE << Function(qualname(k), << >>) >>]
    /\ last = Idle

Registered(st) ==
    /\ _PATCHED_CLASS_NAMES' = st.names
    /\ _CLASS_CACHE' = st.cache
    /\ klass_to_dict' = st.attr

\* mutant: no test of _PATCH_CALLED, every call scans
patch_telethon_classes_again ==
    /\ last = Idle
    /\ LET first == PatchAll(Registry, alltlobjects, 1)
           second == PatchAll(first, TLObjectSubclasses, 1) IN
       /\ _PATCH_CALLED' = TRUE
       /\ Registered(second)
       /\ last' = Call("patch_telethon_classes", PyNone, PyNone, FALSE,
                       Ok(<< Cardinality(second.names), Cardinality(first.names),
                             Cardinality(second.names) - Cardinality(first.names) >>))

\* lines 71-91
patch_telethon_classes ==
    /\ last = Idle
    /\ IF _PATCH_CALLED
       THEN /\ last' = Call("patch_telethon_classes", PyNone, PyNone, FALSE, Err(AlreadyCalled))
            /\ UNCHANGED << _PATCH_CALLED, _PATCHED_CLASS_NAMES, _CLASS_CACHE, klass_to_dict >>
       ELSE LET first == PatchAll(Registry, alltlobjects, 1)
                second == PatchAll(first, TLObjectSubclasses, 1) IN
            /\ _PATCH_CALLED' = TRUE
            /\ Registered(second)
            /\ last' = Call("patch_telethon_classes", PyNone, PyNone, FALSE,
                            Ok(<< Cardinality(second.names), Cardinality(first.names),
                                  Cardinality(second.names) - Cardinality(first.names) >>))

\* a direct call of _patch_to_dict_method(klass): lines 42-68
PatchToDict ==
    \E klass \in Classes :
        LET st == _patch_to_dict_method(Registry, klass) IN
        /\ last = Idle
        /\ Registered(st)
        /\ last' = Call("_patch_to_dict_method", klass, PyNone, FALSE, Ok(st.log))
        /\ UNCHANGED _PATCH_CALLED

\* lines 94-106: the groups of full names sharing a basename that are logged
report_same_basename_classes ==
    /\ last = Idle
    /\ last' = Call("report_same_basename_classes", PyNone, PyNone, FALSE,
                    IF ~_check_patch_was_applied.ok THEN _check_patch_was_applied
                    ELSE LET group(b) == {n \in _PATCHED_CLASS_NAMES : BaseNameOf(n) = b} IN
                         Ok({group(BaseNameOf(n)) : n \in {m \in _PATCHED_CLASS_NAMES : Cardinality(group(BaseNameOf(m))) >= 2}}))
    /\ UNCHANGED << _PATCH_CALLED, _PATCHED_CLASS_NAMES, _CLASS_CACHE, klass_to_dict >>

GetTelethonClass ==
    \E class_name \in ClassNames :
        /\ last = Idle
        /\ last' = Call("get_telethon_class", PyStr(class_name), PyNone, FALSE, get_telethon_class(class_name))
        /\ UNCHANGED << _PATCH_CALLED, _PATCHED_CLASS_NAMES, _CLASS_CACHE, klass_to_dict >>

Encode(objs) ==
    \E obj \in objs :
        /\ last = Idle
        /\ last' = Call("tl_obj_to_string", obj, PyNone, FALSE, tl_obj_to_string(obj))
        /\ UNCHANGED << _PATCH_CALLED, _PATCHED_CLASS_NAMES, _CLASS_CACHE, klass_to_dict >>

\* decode of a document written by hand
Decode(docs) ==
    \E dump \in docs :
        /\ last = Idle
        /\ last' = Call("tl_obj_from_string", dump, PyNone, FALSE, tl_obj_from_string(dump))
        /\ UNCHANGED << _PATCH_CALLED, _PATCHED_CLASS_NAMES, _CLASS_CACHE, klass_to_dict >>

\* decode of the text the last encode returned; src is the encoded object
DecodeDump ==
    /\ last.op = "tl_obj_to_string"
    /\ last.res.ok
    /\ last' = Call("tl_obj_from_string", last.res.val, last.arg, FALSE, tl_obj_from_string(last.res.val))
    /\ UNCHANGED << _PATCH_CALLED, _PATCHED_CLASS_NAMES, _CLASS_CACHE, klass_to_dict >>

Check(objs) ==
    \E obj \in objs, raises \in BOOLEAN :
        /\ last = Idle
        /\ last' = Call("check_telethon_obj_serialization", obj, PyNone, raises, check_telethon_obj_serialization(obj, raises))
        /\ UNCHANGED << _PATCH_CALLED, _PATCHED_CLASS_NAMES, _CLASS_CACHE, klass_to_dict >>

\* restore_instance(raw) called on a value as json.loads hands it over
RestoreInstance ==
    \E raw \in RawValues :
        /\ last = Idle
        /\ last' = Call("restore_instance", raw, PyNone, FALSE, restore_instance(raw))
        /\ UNCHANGED << _PATCH_CALLED, _PATCHED_CLASS_NAMES, _CLASS_CACHE, klass_to_dict >>

\* object_hook_json_helper(obj) called on a parsed JSON object
ObjectHook ==
    \E obj \in FlatObjects :
        /\ last = Idle
        /\ last' = Call("object_hook_json_helper", obj, PyNone, FALSE, object_hook_json_helper(obj))
        /\ UNCHANGED << _PATCH_CALLED, _PATCHED_CLASS_NAMES, _CLASS_CACHE, klass_to_dict >>

\* the call returns: its result is consumed and the next call can be made
Return ==
    /\ last # Idle
    /\ last' = Idle
    /\ UNCHANGED << _PATCH_CALLED, _PATCHED_CLASS_NAMES, _CLASS_CACHE, klass_to_dict >>

\* the module's public operations
Next ==
    \/ patch_telethon_classes
    \/ report_same_basename_classes
    \/ GetTelethonClass
    \/ Encode(Objects)
    \/ Decode(Docs)
    \/ DecodeDump
    \/ Check(Objects)
    \/ RestoreInstance
    \/ ObjectHook
    \/ Return

Spec == Init /\ [][Next]_vars

\* the public operations together with direct calls of the wrap
NextWrap ==
    \/ PatchToDict
    \/ patch_telethon_classes
    \/ report_same_basename_classes
    \/ GetTelethonClass
    \/ Encode(FewObjects)
    \/ Decode(FewDocs)
    \/ DecodeDump
    \/ Check(FewObjects)
    \/ Return

SpecWrap == Init /\ [][NextWrap]_vars

\* ------------------------------------------------------------ the claims
Registered_(k) == full_class_name(k) \in DOMAIN _CLASS_CACHE /\ _CLASS_CACHE[full_class_name(k)] = k

\* the classes of the typed objects in a value
RECURSIVE ClassesOf(_)
ClassesOf(x) ==
    IF x.t = "obj" THEN {x.cls} \cup UNION {ClassesOf(x.v[i][2]) : i \in 1..Len(x.v)}
    ELSE IF x.t = "list" THEN UNION {ClassesOf(x.v[i]) : i \in 1..Len(x.v)}
    ELSE IF x.t = "dict" THEN UNION {ClassesOf(x.v[i][2]) : i \in 1..Len(x.v)}
    ELSE {}

QueryOps == {"get_telethon_class", "report_same_basename_classes", "tl_obj_to_string", "tl_obj_from_string"}

\* every TLObject class of the two scans is in the registry
ScanComplete ==
    \A k \in {alltlobjects[i] : i \in 1..Len(alltlobjects)} \cup {TLObjectSubclasses[i] : i \in 1..Len(TLObjectSubclasses)} :
        issubclassTLObject(k) => full_class_name(k) \in DOMAIN _CLASS_CACHE /\ full_class_name(k) \in _PATCHED_CLASS_NAMES

\* C1: after patch_telethon_classes, every object built from the supported
\* value kinds whose classes are all registered is encoded without error,
\* and decoding that text succeeds and returns an object of the same class
\* whose to_dict equals the original's (nesting, None fields and the order
\* of list elements included).
C1_RoundTripIdentity ==
    /\ (last.op = "tl_obj_to_string" /\ _PATCH_CALLED /\ \A k \in ClassesOf(last.arg) : Registered_(k))
          => last.res.ok
    /\ (last.op = "tl_obj_from_string" /\ last.src # PyNone)
          => /\ last.res.ok
             /\ last.res.val.t = "obj"
             /\ last.res.val.cls = last.src.cls
             /\ to_dict(last.src).ok
             /\ to_dict(last.res.val) = to_dict(last.src)

\* a message with a None date and two different typed objects in its list
\* has made the round trip
C1_Witness ==
    /\ last.op = "tl_obj_from_string"
    /\ last.src = MessageOf("patched.Message", PyInt(MaxInt), InnerMessage, PyNone,
                            PyList(<< PhotoStrippedSizeOf("02 40 d5 ff"), PeerChannelOf(1) >>))
    /\ last.res.ok
    /\ Get(last.res.val.v, "entities") = PyList(<< PhotoStrippedSizeOf("02 40 d5 ff"), PeerChannelOf(1) >>)
    /\ Get(last.res.val.v, "date") = PyNone

\* C2: lookup, the duplicate report, encode and decode fail with the state
\* error whenever patch_telethon_classes has not been called, whatever the
\* registry holds by then; none of them gets past the state check unless
\* the scan has put every class of the universe into the registry.
C2_StateErrorBeforeInit ==
    last.op \in QueryOps =>
        /\ ~_PATCH_CALLED => last.res = Err(StateError)
        /\ (last.res.ok \/ last.res.err # StateError) => ScanComplete

\* a query has failed with the state error against a registry that direct
\* wraps had partially populated
C2_Witness ==
    /\ last.op = "tl_obj_to_string"
    /\ last.res = Err(StateError)
    /\ _PATCHED_CLASS_NAMES # {}
    /\ ~ScanComplete

\* C3: a call of patch_telethon_classes after the first fails with the
\* state error and leaves the registry, the patched names, the classes'
\* to_dict and the flag as they were: the universe is scanned at most once.
C3_PatchOnce ==
    [][ (last'.op = "patch_telethon_classes" /\ last = Idle /\ _PATCH_CALLED)
            => /\ last'.res = Err(AlreadyCalled)
               /\ UNCHANGED << _PATCH_CALLED, _PATCHED_CLASS_NAMES, _CLASS_CACHE, klass_to_dict >> ]_vars

C3_Witness ==
    /\ last.op = "patch_telethon_classes"
    /\ last.res = Err(AlreadyCalled)
    /\ _PATCH_CALLED
    /\ ScanComplete

\* the value restore_instance hands to the final isinstance check, if any
Restored(dump) ==
    IF ~json_loads(dump).ok THEN json_loads(dump) ELSE restore_instance(json_loads(dump).val)

\* C5: after initialization tl_obj_from_string returns only TLObject
\* instances; a document that is a bare scalar, or whose reconstructed
\* top-level value is a timestamp, a byte string, a list or a plain mapping,
\* fails with the "not descendant of TLObject" type error.
C5_TopLevelRejection ==
    (last.op = "tl_obj_from_string" /\ _PATCH_CALLED) =>
        /\ last.res.ok => (last.res.val.t = "obj" /\ issubclassTLObject(last.res.val.cls))
        /\ last.arg.t \in {"none", "bool", "int", "str"} => last.res = Err(NotTLObject)
        /\ (Restored(last.arg).ok /\ Restored(last.arg).val.t \in {"datetime", "bytes", "list", "dict"})
              => last.res = Err(NotTLObject)

\* a document holding only a codec-written timestamp has been rejected
C5_Witness ==
    /\ last.op = "tl_obj_from_string"
    /\ _PATCH_CALLED
    /\ last.arg = PyDict(<< <<"_isoformat", IsoText>> >>)
    /\ last.res = Err(NotTLObject)

\* C6: check_telethon_obj_serialization never lets an exception out and
\* always returns a boolean.
C6_VerifierNeverRaises ==
    last.op = "check_telethon_obj_serialization" => (last.res.ok /\ last.res.val.t = "bool")

\* the mappings of a document, at every depth
RECURSIVE MappingsOf(_)
MappingsOf(x) ==
    IF x.t = "dict" THEN {x.v} \cup UNION {MappingsOf(x.v[i][2]) : i \in 1..Len(x.v)}
    ELSE IF x.t = "list" THEN UNION {MappingsOf(x.v[i]) : i \in 1..Len(x.v)}
    ELSE {}

UnknownTagged(m) == HasKey(m, "_") /\ Get(m, "_").t = "str" /\ Get(m, "_").v \notin DOMAIN _CLASS_CACHE
KnownTagged(m) == HasKey(m, "_") /\ Get(m, "_").t = "str" /\ Get(m, "_").v \in DOMAIN _CLASS_CACHE
BadTagged(m) == HasKey(m, "_") /\ Get(m, "_").t \notin {"str", "none"}
\* the scalar codec takes the mapping for a timestamp or a byte string
CodecTaken(m) == DictGet(m, "_isoformat").t # "none" \/ DictGet(m, "_base64").t # "none"

C8_NonStringTagFails ==
    (last.op = "restore_instance" /\ HasKey(last.arg.v, "_")) =>
        /\ Get(last.arg.v, "_").t # "str" => ~last.res.ok
        /\ ~(last.res.ok /\ last.res.val.t = "dict")

LiveKey(m, k) == DictGet(m, k).t # "none"

\* C9 as stated: a mapping with the key "_isoformat", whatever its value, is
\* taken for a timestamp (parsed, or the parse fails); otherwise one with
\* the key "_base64", whatever its value, is taken for a byte string;
\* otherwise the mapping is returned unchanged.
C9_HookByKeyPresence ==
    last.op = "object_hook_json_helper" =>
        /\ HasKey(last.arg.v, "_isoformat")
              => IF last.res.ok THEN last.res.val.t = "datetime" ELSE last.res.err \in {IsoTypeError, IsoValueError}
        /\ (~HasKey(last.arg.v, "_isoformat") /\ HasKey(last.arg.v, "_base64"))
              => IF last.res.ok THEN last.res.val.t = "bytes" ELSE last.res.err = EncodedKeyError
        /\ (~HasKey(last.arg.v, "_isoformat") /\ ~HasKey(last.arg.v, "_base64")) => last.res = Ok(last.arg)

\* C9 amended: a key whose value is null counts as absent.  A mapping with a
\* non-null "_isoformat" is replaced by the parsed timestamp (the parse
\* raises when the value is no ISO string); otherwise one with a non-null
\* "_base64" (true or false alike) is replaced by the bytes decoded from its
\* "encoded" entry (a KeyError without one); otherwise it is returned
\* unchanged.  A non-null "_isoformat" takes precedence.
C9_HookByNonNullKey ==
    last.op = "object_hook_json_helper" =>
        /\ LiveKey(last.arg.v, "_isoformat") =>
              /\ Get(last.arg.v, "_isoformat") = IsoText => last.res = Ok(PyDatetime("2025-12-01 01:02:03 UTC"))
              /\ Get(last.arg.v, "_isoformat") = PyStr("hello") => last.res = Err(IsoValueError)
              /\ Get(last.arg.v, "_isoformat").t # "str" => last.res = Err(IsoTypeError)
        /\ (~LiveKey(last.arg.v, "_isoformat") /\ LiveKey(last.arg.v, "_base64")) =>
              IF HasKey(last.arg.v, "encoded") THEN last.res = Ok(PyBytes("02 40 d5 ff"))
              ELSE last.res = Err(EncodedKeyError)
        /\ (~LiveKey(last.arg.v, "_isoformat") /\ ~LiveKey(last.arg.v, "_base64")) => last.res = Ok(last.arg)

\* a null "_isoformat" beside a false "_base64" has been decoded as bytes
C9_Witness ==
    /\ last.op = "object_hook_json_helper"
    /\ HasKey(last.arg.v, "_isoformat")
    /\ Get(last.arg.v, "_isoformat") = PyNone
    /\ DictGet(last.arg.v, "_base64") = PyBool(FALSE)
    /\ last.res = Ok(PyBytes("02 40 d5 ff"))

\* the closures class k's own to_dict is wrapped in
ClosuresOf(k) == getattr_to_dict(klass_to_dict, k).wraps
OwnClosures(k) == {i \in 1..Len(ClosuresOf(k)) : ClosuresOf(k)[i].klass = k}

C10_MismatchCaughtAtWrap ==
    /\ \A n \in DOMAIN _CLASS_CACHE : ClosuresOf(_CLASS_CACHE[n]) = << Closure(_CLASS_CACHE[n]) >>
    /\ last.op = "tl_obj_to_string" => last.res # Err(ClassNameMismatch)

\* C10 amended: the tag is checked when an instance is described, not when
\* its class is wrapped.  _patch_to_dict_method installs every TLObject
\* subclass whose identifier is new, whatever its to_dict yields, and skips
\* only a class that is no TLObject subclass (with a warning);
\* patch_telethon_classes completes for every class; and encoding an object
\* fails with the "class name mismatch" error exactly when one of its
\* classes was wrapped over an inherited, already wrapped to_dict.
C10_MismatchRaisedAtDescribe ==
    /\ last.op = "_patch_to_dict_method" =>
          IF issubclassTLObject(last.arg)
          THEN full_class_name(last.arg) \in DOMAIN _CLASS_CACHE /\ last.res.val # "warning: not a subclass of TLObject"
          ELSE full_class_name(last.arg) \notin DOMAIN _CLASS_CACHE /\ last.res.val = "warning: not a subclass of TLObject"
    /\ _PATCH_CALLED => ScanComplete
    /\ (last.op = "tl_obj_to_string" /\ _PATCH_CALLED) =>
          (last.res = Err(ClassNameMismatch) <=> \E k \in ClassesOf(last.arg) : Len(ClosuresOf(k)) >= 2)

\* the registered subclass patched.Message, wrapped over the wrapped
\* to_dict of types.Message, has failed to encode
C10_Witness ==
    /\ last.op = "tl_obj_to_string"
    /\ _PATCH_CALLED
    /\ last.arg.cls = "patched.Message"
    /\ Registered_("patched.Message")
    /\ last.res = Err(ClassNameMismatch)

====
